---- MODULE Spec2Model ----
(***************************************************************************)
(* Bloc Sales CRM: the lead assignment engine.                             *)
(*                                                                         *)
(* Two implementations of the engine live in the repository:               *)
(*   - assign_lead_atomic, a plpgsql procedure that runs as one Postgres   *)
(*     transaction at READ COMMITTED (statement snapshots, row locks       *)
(*     taken by UPDATE and by SELECT ... FOR UPDATE, released at the end   *)
(*     of the transaction);                                                *)
(*   - smartAssignLead, an application function that issues one            *)
(*     autocommitted statement per await (fetch, reset, update caller,     *)
(*     update lead).                                                       *)
(* The variable engine says which of the two a deployment runs.            *)
(***************************************************************************)
EXTENDS Integers, Sequences, FiniteSets, TLC

(***************************************************************************)
(* Bounds of the model.                                                    *)
(***************************************************************************)
NCallers == 3
NProcs == 2
MaxCalls == 3
MaxSeqCalls == 4
MaxLimit == 2
MaxDay == 1

CallerIds == 1..NCallers
LeadIds == 1..(IF MaxCalls < MaxSeqCalls THEN MaxSeqCalls ELSE MaxCalls)
Procs == 1..NProcs

\* SQL NULL / JS null for ids and timestamps (real ids and timestamps are >= 1).
NULL == 0

(***************************************************************************)
(* Text values: strings are sequences of characters, so that lower(),      *)
(* toLowerCase() and trim() are computed and not assumed.                  *)
(***************************************************************************)
NULLTEXT == <<"<null>">>
MH == <<"M", "H">>
KA == <<"K", "A">>
ALL_STATES == {MH, KA}

lowerChar(c) ==
  CASE c = "M" -> "m"
    [] c = "H" -> "h"
    [] c = "K" -> "k"
    [] c = "A" -> "a"
    [] OTHER -> c

\* String.prototype.toLowerCase
toLowerCase(s) == [i \in DOMAIN s |-> lowerChar(s[i])]

\* A comparison that keeps letter case (text compared as written).
asWritten(s) == s

\* Postgres lower(text)
lower(s) == [i \in DOMAIN s |-> lowerChar(s[i])]

RECURSIVE trimStart(_)
trimStart(s) == IF s # <<>> /\ Head(s) = " " THEN trimStart(Tail(s)) ELSE s

RECURSIVE trimEnd(_)
trimEnd(s) ==
  IF s # <<>> /\ s[Len(s)] = " " THEN trimEnd(SubSeq(s, 1, Len(s) - 1)) ELSE s

\* String.prototype.trim
trim(s) == trimEnd(trimStart(s))

\* The lead states a webhook body can carry (free text, or absent).
StateInputs == {NULLTEXT, <<"m", "h">>}
WideStateInputs == StateInputs \cup {<<>>, KA, <<" ", "M", "H">>}

(***************************************************************************)
(* State.                                                                  *)
(***************************************************************************)
VARIABLES
  engine,           \* "sql" | "ts": the implementation the deployment runs
  callers,          \* table public.callers: id -> row (committed)
  leads,            \* table public.leads: id -> row (committed)
  assignment_logs,  \* table public.assignment_logs: sequence of rows (committed)
  clock,            \* the wall clock (ticks)
  CURRENT_DATE,     \* the calendar day
  ncalls,           \* assign calls started so far
  pc,               \* per call: its position
  arg,              \* per call: [lead_id, state] it was called with
  loc,              \* per call: its local variables
  wCallers,         \* per transaction: uncommitted caller row versions
  wLeads,           \* per transaction: uncommitted lead row versions
  wLogs,            \* per transaction: uncommitted assignment_logs rows
  lockC,            \* row locks on callers: id -> owner or NULL
  lockL,            \* row locks on leads: id -> owner or NULL
  result,           \* per call: the value the last call returned
  events,           \* history: the assignments executed, in order
  assignedSince,    \* history: per caller, assignments since its last reset
  increments,       \* history: the committed increments of a caller's counter
  base,             \* history: the tables when the running batch of calls began
  batch,            \* history: the calls begun since then (call number -> call)
  WEBHOOK_SECRET,   \* process.env.WEBHOOK_SECRET (NULLTEXT: not set)
  ingested,         \* table public.leads, columns phone and created_at: id -> row
  requests,         \* per POST /api/ingest handler: its position and locals
  responses         \* history: the HTTP responses sent, in order

vars == <<engine, callers, leads, assignment_logs, clock, CURRENT_DATE, ncalls,
          pc, arg, loc, wCallers, wLeads, wLogs, lockC, lockL, result, events,
          assignedSince, increments, base, batch, WEBHOOK_SECRET, ingested,
          requests, responses>>

\* The state of the ingest route.
route == <<WEBHOOK_SECRET, ingested, requests, responses>>

hist == <<assignedSince, increments, base, batch>>

Put(f, k, v) == [x \in (DOMAIN f) \cup {k} |-> IF x = k THEN v ELSE f[x]]
EmptyFn == [x \in {} |-> NULL]

\* A freshly created caller row (schema defaults; the form sets limit and states).
NewCaller(limit, states, today) ==
  [daily_lead_limit |-> limit,
   assigned_states |-> states,
   leads_assigned_today |-> 0,
   last_reset_date |-> today,
   last_assigned_at |-> NULL]

NewLead(state) ==
  [state |-> state, assigned_caller_id |-> NULL, assigned_at |-> NULL]

NoLocals ==
  [v_today |-> 0, v_now |-> 0, v_chosen_caller_id |-> NULL, v_reason |-> "",
   layer |-> 0, queue |-> {}, snap |-> EmptyFn, before |-> 0, didReset |-> {},
   today |-> 0, rawCallers |-> EmptyFn, chosenCaller |-> NULL, assignedAt |-> NULL]

NoArg == [lead_id |-> NULL, state |-> NULLTEXT, call |-> 0]

NoResult == [success |-> FALSE, caller_id |-> NULL, reason |-> "", error |-> "none"]

\* The tags of the three callers the model configures.
TagsOf(c) == IF c = 1 THEN {MH} ELSE IF c = 2 THEN {} ELSE {MH, KA}

\* The secret the webhook's sender and the deployment share.
SharedSecret == <<"s">>

NoRequest == [pos |-> "none", phone |-> NULLTEXT, state |-> NULLTEXT,
              header |-> NULLTEXT, lead_id |-> NULL]

\* The ingest route before any request, with WEBHOOK_SECRET set to s.
InitIngest(s) ==
  /\ WEBHOOK_SECRET = s
  /\ ingested = EmptyFn
  /\ requests = [p \in Procs |-> NoRequest]
  /\ responses = <<>>

\* The tables and the engine before any call.
InitEngine ==
  /\ engine \in {"sql", "ts"}
  /\ \E n \in 0..NCallers, limit \in 1..MaxLimit :
       callers = [c \in 1..n |-> NewCaller(limit, TagsOf(c), 1)]
  /\ leads = EmptyFn
  /\ assignment_logs = <<>>
  /\ clock = 1
  /\ CURRENT_DATE = 1
  /\ ncalls = 0
  /\ pc = [p \in Procs |-> "idle"]
  /\ arg = [p \in Procs |-> NoArg]
  /\ loc = [p \in Procs |-> NoLocals]
  /\ wCallers = [p \in Procs |-> EmptyFn]
  /\ wLeads = [p \in Procs |-> EmptyFn]
  /\ wLogs = [p \in Procs |-> <<>>]
  /\ lockC = [c \in CallerIds |-> NULL]
  /\ lockL = [l \in LeadIds |-> NULL]
  /\ result = [p \in Procs |-> NoResult]
  /\ events = <<>>
  /\ assignedSince = [c \in CallerIds |-> 0]
  /\ increments = 0
  /\ base = [callers |-> callers, leads |-> leads, assignment_logs |-> <<>>]
  /\ batch = EmptyFn

Init == InitEngine /\ InitIngest(SharedSecret)

(***************************************************************************)
(* assign_lead_atomic: the selection clauses.                              *)
(***************************************************************************)
\* ORDER BY last_assigned_at ASC (the default, NULLS LAST): a sorts before b.
NullsLastBefore(a, b) ==
  \/ a # NULL /\ b = NULL
  \/ a # NULL /\ b # NULL /\ a < b

\* ORDER BY last_assigned_at ASC NULLS FIRST: a sorts strictly before b.
NullsFirstBefore(a, b) ==
  \/ a = NULL /\ b # NULL
  \/ a # NULL /\ b # NULL /\ a < b

\* Layer 1 WHERE: state match (case-insensitive) and under the daily limit.
Layer1Where(c, p_state) ==
  /\ p_state # NULLTEXT
  /\ p_state # <<>>
  /\ \E s \in c.assigned_states : lower(s) = lower(p_state)
  /\ c.leads_assigned_today < c.daily_lead_limit

\* Layer 2 WHERE: under the daily limit.
Layer2Where(c) == c.leads_assigned_today < c.daily_lead_limit

\* Layer 3 has no WHERE clause.
Layer3Where(c) == TRUE

LayerWhere(n, c, p_state) ==
  IF n = 1 THEN Layer1Where(c, p_state)
  ELSE IF n = 2 THEN Layer2Where(c)
  ELSE Layer3Where(c)

\* Layers 1 and 2 ORDER BY last_assigned_at ASC NULLS FIRST.
RoundRobinBefore(x, y) == NullsFirstBefore(x.last_assigned_at, y.last_assigned_at)

\* Layer 3 ORDER BY leads_assigned_today ASC, last_assigned_at ASC NULLS FIRST.
Layer3Before(x, y) ==
  \/ x.leads_assigned_today < y.leads_assigned_today
  \/ /\ x.leads_assigned_today = y.leads_assigned_today
     /\ NullsFirstBefore(x.last_assigned_at, y.last_assigned_at)

LayerBefore(n, x, y) == IF n = 3 THEN Layer3Before(x, y) ELSE RoundRobinBefore(x, y)

LayerReason(n) ==
  IF n = 1 THEN "state_match_round_robin"
  ELSE IF n = 2 THEN "global_round_robin"
  ELSE "cap_overflow_fallback"

\* The rows of table t that statement n selects, and the ones that may come
\* first in its sort order (rows that tie are in an order the executor picks).
LayerRows(n, t, p_state) == {c \in DOMAIN t : LayerWhere(n, t[c], p_state)}
FirstRows(n, t, q) == {r \in q : \A o \in q : ~LayerBefore(n, t[o], t[r])}

(***************************************************************************)
(* Transactions at READ COMMITTED: a statement sees the committed rows and *)
(* the transaction's own writes.                                           *)
(***************************************************************************)
Visible(p) ==
  [c \in DOMAIN callers |->
     IF c \in DOMAIN wCallers[p] THEN wCallers[p][c] ELSE callers[c]]

InFlight(p) == pc[p] # "idle"

\* The position after statement n found no row, were there no Layer 3.
AfterNoRowTwoLayers(n) == IF n = 1 THEN "layer2" ELSE "return"

\* The position after statement n found no row.
AfterNoRow(n) == IF n = 1 THEN "layer2" ELSE IF n = 2 THEN "layer3" ELSE "return"

\* The lead a new call is about: a retry of a stored lead, or the next lead the
\* ingest route inserts (state st) right before it calls the engine.
NextLead == Cardinality(DOMAIN leads) + 1

CallTargets ==
  {l \in DOMAIN leads : \A q \in Procs : arg[q].lead_id # l}
    \cup (IF NextLead \in LeadIds THEN {NextLead} ELSE {})

LeadsAfterInsert(l, st) == IF l \in DOMAIN leads THEN leads ELSE Put(leads, l, NewLead(st))

AllIdle == \A q \in Procs : pc[q] = "idle"

\* History: a batch is the calls begun since the last moment no call was running.
CallRecord(l, st, today, now, done) ==
  [lead_id |-> l, state |-> st, today |-> today, now |-> now, done |-> done,
   got |-> NULL, reason |-> ""]

BatchBegin(l, st, today, now, done) ==
  /\ base' = IF AllIdle
             THEN [callers |-> callers, leads |-> leads',
                   assignment_logs |-> assignment_logs]
             ELSE IF l \in DOMAIN base.leads THEN base
             ELSE [base EXCEPT !.leads = Put(@, l, leads'[l])]
  /\ batch' = IF AllIdle
              THEN Put(EmptyFn, ncalls + 1, CallRecord(l, st, today, now, done))
              ELSE Put(batch, ncalls + 1, CallRecord(l, st, today, now, done))

BatchEnd(p, done, got, reason) ==
  /\ batch' = [batch EXCEPT ![arg[p].call] =
        [@ EXCEPT !.done = done, !.got = got, !.reason = reason]]
  /\ UNCHANGED base

\* A new call runs on the first idle session.
CanBegin(p) ==
  /\ pc[p] = "idle"
  /\ \A q \in Procs : q < p => (pc[q] # "idle" \/ requests[q].pos # "none")

\* BEGIN; v_today := CURRENT_DATE; statement A takes its snapshot.
BeginSQL(p, l, st) ==
  /\ engine = "sql"
  /\ CanBegin(p)
  /\ l \in CallTargets
  /\ leads' = LeadsAfterInsert(l, st)
  /\ arg' = [arg EXCEPT ![p] =
        [lead_id |-> l, state |-> leads'[l].state, call |-> ncalls + 1]]
  /\ ncalls' = ncalls + 1
  /\ clock' = clock + 1
  /\ BatchBegin(l, leads'[l].state, CURRENT_DATE, clock, "run")
  /\ LET stale == {c \in DOMAIN callers : callers[c].last_reset_date < CURRENT_DATE}
     IN /\ loc' = [loc EXCEPT ![p] = [NoLocals EXCEPT !.v_today = CURRENT_DATE,
                                                      !.v_now = clock,
                                                      !.queue = stale]]
        /\ pc' = [pc EXCEPT ![p] = IF stale = {} THEN "layer1" ELSE "reset"]
  /\ UNCHANGED <<engine, callers, assignment_logs, CURRENT_DATE, wCallers, wLeads,
                 wLogs, lockC, lockL, result, events, assignedSince, increments>>

\* A. UPDATE callers SET leads_assigned_today = 0, last_reset_date = v_today
\*    WHERE last_reset_date < v_today: one row of the scan. The row is locked
\*    (the statement waits while another transaction holds it), and the WHERE
\*    clause is evaluated again on the row's latest version; the lock taken on
\*    a row that no longer passes stays until the transaction ends.
ResetStale(p) ==
  /\ pc[p] = "reset"
  /\ loc[p].queue # {}
  /\ LET r == CHOOSE c \in loc[p].queue : \A o \in loc[p].queue : c <= o
         latest == Visible(p)[r]
         rest == loc[p].queue \ {r}
     IN /\ lockC[r] \in {NULL, p}
        /\ IF latest.last_reset_date < loc[p].v_today
           THEN /\ wCallers' = [wCallers EXCEPT ![p] =
                      Put(@, r, [latest EXCEPT !.leads_assigned_today = 0,
                                               !.last_reset_date = loc[p].v_today])]
                /\ lockC' = [lockC EXCEPT ![r] = p]
                /\ loc' = [loc EXCEPT ![p].queue = rest,
                                      ![p].didReset = @ \cup {r}]
           ELSE /\ UNCHANGED wCallers
                /\ lockC' = [lockC EXCEPT ![r] = p]
                /\ loc' = [loc EXCEPT ![p].queue = rest]
        /\ pc' = [pc EXCEPT ![p] = IF rest = {} THEN "layer1" ELSE "reset"]
  /\ UNCHANGED <<engine, WEBHOOK_SECRET, ingested, requests, responses,
                 callers, leads, assignment_logs, clock, CURRENT_DATE, ncalls,
                 arg, wLeads, wLogs, lockL, result, events, assignedSince, increments, base, batch>>

\* A layer's SELECT starts: it takes its snapshot and sorts the rows it selects.
LayerScan(p, n) ==
  LET t == Visible(p)
      rows == LayerRows(n, t, arg[p].state)
  IN /\ loc' = [loc EXCEPT ![p].layer = n, ![p].snap = t, ![p].queue = rows]
     /\ pc' = [pc EXCEPT ![p] = IF rows = {} THEN AfterNoRow(n) ELSE "lock"]
     /\ UNCHANGED <<engine, WEBHOOK_SECRET, ingested, requests, responses,
                 callers, leads, assignment_logs, clock, CURRENT_DATE,
                    ncalls, arg, wCallers, wLeads, wLogs, lockC, lockL, result, events, assignedSince, increments, base, batch>>

\* Layer 1: Specific State Match.
Layer1(p) == pc[p] = "layer1" /\ LayerScan(p, 1)

\* Layer 2: Global Fallback (v_chosen_caller_id IS NULL after layer 1).
Layer2(p) == pc[p] = "layer2" /\ LayerScan(p, 2)

\* Layer 3: Overflow Fallback (v_chosen_caller_id IS NULL after layer 2).
Layer3(p) == pc[p] = "layer3" /\ LayerScan(p, 3)

\* ... LIMIT 1 FOR UPDATE: the first row of the sorted snapshot is locked; the
\* statement waits while another transaction holds the row. When the lock is
\* granted the WHERE clause is evaluated on the row's latest version: the row is
\* returned if it still passes (the sort is not redone), else the next row of
\* the snapshot order is tried, the lock on the row passed over staying until
\* the transaction ends.
LockRows(p) ==
  /\ pc[p] = "lock"
  /\ \E r \in FirstRows(loc[p].layer, loc[p].snap, loc[p].queue) :
       LET latest == Visible(p)[r]
           rest == loc[p].queue \ {r}
       IN /\ lockC[r] \in {NULL, p}
          /\ IF LayerWhere(loc[p].layer, latest, arg[p].state)
             THEN /\ lockC' = [lockC EXCEPT ![r] = p]
                  /\ loc' = [loc EXCEPT ![p].v_chosen_caller_id = r,
                                        ![p].v_reason = LayerReason(loc[p].layer),
                                        ![p].queue = {}]
                  /\ pc' = [pc EXCEPT ![p] = "updateCaller"]
             ELSE /\ lockC' = [lockC EXCEPT ![r] = p]
                  /\ loc' = [loc EXCEPT ![p].queue = rest]
                  /\ pc' = [pc EXCEPT ![p] =
                        IF rest = {} THEN AfterNoRow(loc[p].layer) ELSE "lock"]
  /\ UNCHANGED <<engine, WEBHOOK_SECRET, ingested, requests, responses,
                 callers, leads, assignment_logs, clock, CURRENT_DATE, ncalls,
                 arg, wCallers, wLeads, wLogs, lockL, result, events, assignedSince, increments, base, batch>>

\* C. UPDATE callers SET leads_assigned_today = leads_assigned_today + 1,
\*    last_assigned_at = now() WHERE id = v_chosen_caller_id.
UpdateCaller(p) ==
  /\ pc[p] = "updateCaller"
  /\ LET r == loc[p].v_chosen_caller_id
         latest == Visible(p)[r]
     IN /\ wCallers' = [wCallers EXCEPT ![p] =
              Put(@, r, [latest EXCEPT !.leads_assigned_today = @ + 1,
                                       !.last_assigned_at = loc[p].v_now])]
        /\ loc' = [loc EXCEPT ![p].before = latest.leads_assigned_today]
  /\ pc' = [pc EXCEPT ![p] = "updateLead"]
  /\ UNCHANGED <<engine, WEBHOOK_SECRET, ingested, requests, responses,
                 callers, leads, assignment_logs, clock, CURRENT_DATE, ncalls,
                 arg, wLeads, wLogs, lockC, lockL, result, events, assignedSince, increments, base, batch>>

\* UPDATE leads SET assigned_caller_id = v_chosen_caller_id, assigned_at = now()
\* WHERE id = p_lead_id (waits while another transaction holds the lead row).
UpdateLead(p) ==
  /\ pc[p] = "updateLead"
  /\ lockL[arg[p].lead_id] \in {NULL, p}
  /\ lockL' = [lockL EXCEPT ![arg[p].lead_id] = p]
  /\ wLeads' = [wLeads EXCEPT ![p] =
        Put(@, arg[p].lead_id,
            [leads[arg[p].lead_id] EXCEPT
               !.assigned_caller_id = loc[p].v_chosen_caller_id,
               !.assigned_at = loc[p].v_now])]
  /\ pc' = [pc EXCEPT ![p] = "insertLog"]
  /\ UNCHANGED <<engine, WEBHOOK_SECRET, ingested, requests, responses,
                 callers, leads, assignment_logs, clock, CURRENT_DATE, ncalls,
                 arg, loc, wCallers, wLogs, lockC, result, events, assignedSince, increments, base, batch>>

\* INSERT INTO assignment_logs (lead_id, caller_id, assignment_reason).
InsertLog(p) ==
  /\ pc[p] = "insertLog"
  /\ wLogs' = [wLogs EXCEPT ![p] =
        Append(@, [lead_id |-> arg[p].lead_id,
                   caller_id |-> loc[p].v_chosen_caller_id,
                   assignment_reason |-> loc[p].v_reason])]
  /\ pc' = [pc EXCEPT ![p] = "return"]
  /\ UNCHANGED <<engine, WEBHOOK_SECRET, ingested, requests, responses,
                 callers, leads, assignment_logs, clock, CURRENT_DATE, ncalls,
                 arg, loc, wCallers, wLeads, lockC, lockL, result, events, assignedSince, increments, base, batch>>

\* The end of a transaction: its row locks are released, its writes dropped.
Release(p) ==
  /\ lockC' = [c \in CallerIds |-> IF lockC[c] = p THEN NULL ELSE lockC[c]]
  /\ lockL' = [l \in LeadIds |-> IF lockL[l] = p THEN NULL ELSE lockL[l]]
  /\ wCallers' = [wCallers EXCEPT ![p] = EmptyFn]
  /\ wLeads' = [wLeads EXCEPT ![p] = EmptyFn]
  /\ wLogs' = [wLogs EXCEPT ![p] = <<>>]
  /\ pc' = [pc EXCEPT ![p] = "idle"]
  /\ loc' = [loc EXCEPT ![p] = NoLocals]
  /\ arg' = [arg EXCEPT ![p] = NoArg]

\* A return value built without looking at v_chosen_caller_id.
ReturnSuccess(p) ==
  [success |-> TRUE, caller_id |-> loc[p].v_chosen_caller_id,
   reason |-> loc[p].v_reason, error |-> "none"]

\* What the procedure returns (jsonb_build_object).
ReturnValue(p) ==
  IF loc[p].v_chosen_caller_id # NULL
  THEN [success |-> TRUE, caller_id |-> loc[p].v_chosen_caller_id,
        reason |-> loc[p].v_reason, error |-> "none"]
  ELSE [success |-> FALSE, caller_id |-> NULL, reason |-> "",
        error |-> "No callers available for assignment"]

AssignmentEvent(p) ==
  [lead_id |-> arg[p].lead_id,
   caller_id |-> loc[p].v_chosen_caller_id,
   reason |-> loc[p].v_reason,
   before |-> loc[p].before,
   after |-> Visible(p)[loc[p].v_chosen_caller_id].leads_assigned_today,
   limit |-> Visible(p)[loc[p].v_chosen_caller_id].daily_lead_limit]

\* RETURN and COMMIT: the transaction's writes become visible together.
Return(p) ==
  /\ pc[p] = "return"
  /\ callers' = Visible(p)
  /\ leads' = [l \in DOMAIN leads |->
                 IF l \in DOMAIN wLeads[p] THEN wLeads[p][l] ELSE leads[l]]
  /\ assignment_logs' = assignment_logs \o wLogs[p]
  /\ result' = [result EXCEPT ![p] = ReturnValue(p)]
  /\ events' = IF loc[p].v_chosen_caller_id # NULL
               THEN Append(events, AssignmentEvent(p)) ELSE events
  /\ assignedSince' =
       [c \in CallerIds |->
          (IF c \in loc[p].didReset THEN 0 ELSE assignedSince[c])
            + (IF c = loc[p].v_chosen_caller_id THEN 1 ELSE 0)]
  /\ increments' = increments + (IF loc[p].v_chosen_caller_id # NULL THEN 1 ELSE 0)
  /\ BatchEnd(p, "ok", loc[p].v_chosen_caller_id, ReturnValue(p).reason)
  /\ Release(p)
  /\ UNCHANGED <<engine, WEBHOOK_SECRET, ingested, requests, responses,
                 clock, CURRENT_DATE, ncalls>>

\* A statement of the transaction raises (storage failure, lock timeout): the
\* exception leaves the procedure and the transaction rolls back.
Rollback(p) ==
  /\ engine = "sql"
  /\ pc[p] \in {"reset", "lock", "updateCaller", "updateLead", "insertLog"}
  /\ result' = [result EXCEPT ![p] =
        [success |-> FALSE, caller_id |-> NULL, reason |-> "", error |-> "exception"]]
  /\ BatchEnd(p, "fail", NULL, "")
  /\ Release(p)
  /\ UNCHANGED <<engine, WEBHOOK_SECRET, ingested, requests, responses,
                 callers, leads, assignment_logs, clock, CURRENT_DATE, ncalls,
                 events, assignedSince, increments>>

\* Midnight passes.
NewDay ==
  /\ CURRENT_DATE <= MaxDay
  /\ CURRENT_DATE' = CURRENT_DATE + 1
  /\ UNCHANGED <<engine, WEBHOOK_SECRET, ingested, requests, responses,
                 callers, leads, assignment_logs, clock, ncalls, pc, arg, loc,
                 wCallers, wLeads, wLogs, lockC, lockL, result, events, assignedSince, increments, base, batch>>

(***************************************************************************)
(* smartAssignLead: the application-level engine. Every await is one       *)
(* autocommitted statement; what lies between two awaits runs on the       *)
(* call's local copy of the callers.                                       *)
(***************************************************************************)
\* Step 2 on the local copy: stale callers are reflected as reset.
StaleCallerIds(raw, today) == {c \in DOMAIN raw : raw[c].last_reset_date < today}

\* The local copy left as fetched.
ReflectNothing(raw, today) == raw

ReflectReset(raw, today) ==
  [c \in DOMAIN raw |->
     IF c \in StaleCallerIds(raw, today)
     THEN [raw[c] EXCEPT !.leads_assigned_today = 0, !.last_reset_date = today]
     ELSE raw[c]]

\* Step 3: the state-preferred pool (trimmed, case-insensitive match).
StatePool(cs, state) ==
  IF state # NULLTEXT /\ state # <<>> /\ trim(state) # <<>>
  THEN {c \in DOMAIN cs :
          \E s \in cs[c].assigned_states :
            toLowerCase(trim(s)) = toLowerCase(trim(state))}
  ELSE {}

\* Step 4: fall back to all callers when the state pool is empty.
candidatePool(cs, state) ==
  IF StatePool(cs, state) = {} THEN DOMAIN cs ELSE StatePool(cs, state)

\* Step 5: callers under their daily cap.
eligibleCallers(cs, state) ==
  {c \in candidatePool(cs, state) :
     cs[c].leads_assigned_today < cs[c].daily_lead_limit}

\* Step 6 comparator: a sorts strictly before b (null first, then oldest).
compareLastAssigned(a, b) ==
  IF a.last_assigned_at = NULL /\ b.last_assigned_at = NULL THEN FALSE
  ELSE IF a.last_assigned_at = NULL THEN TRUE
  ELSE IF b.last_assigned_at = NULL THEN FALSE
  ELSE a.last_assigned_at < b.last_assigned_at

\* Step 8 comparator: fewest leads today.
compareLoad(a, b) == a.leads_assigned_today < b.leads_assigned_today

\* sorted[0] of a stable sort of the pool (the array is in created_at order,
\* the order of the ids): the first of the elements no other sorts before.
SortedFirstBy(cs, pool, overflow) ==
  LET before(a, b) == IF overflow THEN compareLoad(a, b) ELSE compareLastAssigned(a, b)
      firsts == {r \in pool : \A o \in pool : ~before(cs[o], cs[r])}
  IN CHOOSE r \in firsts : \A o \in firsts : r <= o

\* Steps 3-8 (also simulateAssignment): the caller chosen and the branch taken.
chosenCaller(cs, state) ==
  IF eligibleCallers(cs, state) # {}
  THEN SortedFirstBy(cs, eligibleCallers(cs, state), FALSE)
  ELSE SortedFirstBy(cs, candidatePool(cs, state), TRUE)

chosenBranch(cs, state) ==
  IF eligibleCallers(cs, state) = {} THEN "cap_overflow_fallback"
  ELSE IF StatePool(cs, state) # {} THEN "state_match_round_robin"
  ELSE "global_round_robin"

TSError(msg) == [success |-> FALSE, caller_id |-> NULL, reason |-> "", error |-> msg]

\* The call returns to the route.
TSReturn(p, value) ==
  /\ result' = [result EXCEPT ![p] = value]
  /\ pc' = [pc EXCEPT ![p] = "idle"]
  /\ loc' = [loc EXCEPT ![p] = NoLocals]
  /\ arg' = [arg EXCEPT ![p] = NoArg]

\* today = todayDateString(); Step 1: fetch all callers (or the fetch fails, or
\* there is no caller).
BeginTS(p, l, st, ok) ==
  /\ engine = "ts"
  /\ CanBegin(p)
  /\ l \in CallTargets
  /\ leads' = LeadsAfterInsert(l, st)
  /\ ncalls' = ncalls + 1
  /\ BatchBegin(l, leads'[l].state, CURRENT_DATE, NULL,
                IF ok /\ DOMAIN callers # {} THEN "run" ELSE "fail")
  /\ IF ~ok
     THEN /\ TSReturn(p, TSError("Failed to fetch callers"))
     ELSE IF DOMAIN callers = {}
     THEN /\ TSReturn(p, TSError("No callers found in the system."))
     ELSE /\ arg' = [arg EXCEPT ![p] =
                [lead_id |-> l, state |-> leads'[l].state, call |-> ncalls + 1]]
          /\ loc' = [loc EXCEPT ![p] = [NoLocals EXCEPT !.today = CURRENT_DATE,
                                                        !.rawCallers = callers]]
          /\ pc' = [pc EXCEPT ![p] =
                IF StaleCallerIds(callers, CURRENT_DATE) = {}
                THEN "tsUpdateCaller" ELSE "tsReset"]
          /\ UNCHANGED result
  /\ UNCHANGED <<engine, callers, assignment_logs, clock, CURRENT_DATE, wCallers,
                 wLeads, wLogs, lockC, lockL, events, assignedSince, increments>>

\* Step 2: the batch update of the stale callers (its outcome is not looked at),
\* then the reset is reflected locally.
TSReset(p, ok) ==
  /\ pc[p] = "tsReset"
  /\ LET stale == StaleCallerIds(loc[p].rawCallers, loc[p].today)
     IN /\ callers' =
             IF ok
             THEN [c \in DOMAIN callers |->
                     IF c \in stale
                     THEN [callers[c] EXCEPT !.leads_assigned_today = 0,
                                             !.last_reset_date = loc[p].today]
                     ELSE callers[c]]
             ELSE callers
        /\ assignedSince' =
             [c \in CallerIds |-> IF ok /\ c \in stale THEN 0 ELSE assignedSince[c]]
  /\ loc' = [loc EXCEPT ![p].rawCallers = ReflectReset(@, loc[p].today)]
  /\ pc' = [pc EXCEPT ![p] = "tsUpdateCaller"]
  /\ UNCHANGED <<engine, WEBHOOK_SECRET, ingested, requests, responses,
                 leads, assignment_logs, clock, CURRENT_DATE, ncalls, arg,
                 wCallers, wLeads, wLogs, lockC, lockL, result, events, increments,
                 base, batch>>

\* Steps 3-9: choose on the local copy, then update the chosen caller's row with
\* the local count plus one (or the update fails and the call returns).
TSUpdateCaller(p, ok) ==
  /\ pc[p] = "tsUpdateCaller"
  /\ LET cs == loc[p].rawCallers
         r == chosenCaller(cs, arg[p].state)
     IN IF ok
        THEN /\ callers' = [callers EXCEPT ![r] =
                   [@ EXCEPT !.leads_assigned_today = cs[r].leads_assigned_today + 1,
                             !.last_assigned_at = clock,
                             !.last_reset_date = loc[p].today]]
             /\ loc' = [loc EXCEPT ![p].chosenCaller = r,
                                   ![p].assignedAt = clock,
                                   ![p].before = cs[r].leads_assigned_today,
                                   ![p].v_reason = chosenBranch(cs, arg[p].state)]
             /\ clock' = clock + 1
             /\ pc' = [pc EXCEPT ![p] = "tsUpdateLead"]
             /\ increments' = increments + 1
             /\ assignedSince' =
                  IF callers[r].last_reset_date < loc[p].today
                  THEN [assignedSince EXCEPT ![r] = 0] ELSE assignedSince
             /\ UNCHANGED <<arg, result, base, batch>>
        ELSE /\ TSReturn(p, TSError("Failed to update caller"))
             /\ BatchEnd(p, "fail", NULL, "")
             /\ UNCHANGED <<callers, clock, increments, assignedSince>>
  /\ UNCHANGED <<engine, WEBHOOK_SECRET, ingested, requests, responses,
                 leads, assignment_logs, CURRENT_DATE, ncalls, wCallers,
                 wLeads, wLogs, lockC, lockL, events>>

\* Step 10: update the lead row, then return the chosen caller (or the update
\* fails and the call returns the error).
TSUpdateLead(p, ok) ==
  /\ pc[p] = "tsUpdateLead"
  /\ LET r == loc[p].chosenCaller
         l == arg[p].lead_id
     IN IF ok
        THEN /\ leads' = [leads EXCEPT ![l] =
                   [@ EXCEPT !.assigned_caller_id = r,
                             !.assigned_at = loc[p].assignedAt]]
             /\ events' = Append(events,
                   [lead_id |-> l, caller_id |-> r, reason |-> loc[p].v_reason,
                    before |-> loc[p].before, after |-> loc[p].before + 1,
                    limit |-> loc[p].rawCallers[r].daily_lead_limit])
             /\ assignedSince' = [assignedSince EXCEPT ![r] = @ + 1]
             /\ BatchEnd(p, "ok", r, loc[p].v_reason)
             /\ TSReturn(p, [success |-> TRUE, caller_id |-> r,
                             reason |-> loc[p].v_reason, error |-> "none"])
        ELSE /\ TSReturn(p, TSError("Failed to update lead"))
             /\ BatchEnd(p, "fail", NULL, "")
             /\ UNCHANGED <<leads, events, assignedSince>>
  /\ UNCHANGED <<engine, WEBHOOK_SECRET, ingested, requests, responses,
                 callers, assignment_logs, clock, CURRENT_DATE, ncalls,
                 wCallers, wLeads, wLogs, lockC, lockL, increments>>

StepTS(p) ==
  \/ \E l \in LeadIds, st \in StateInputs, ok \in BOOLEAN :
       ncalls < MaxCalls /\ BeginTS(p, l, st, ok) /\ UNCHANGED route
  \/ \E ok \in BOOLEAN : TSReset(p, ok)
  \/ \E ok \in BOOLEAN : TSUpdateCaller(p, ok)
  \/ \E ok \in BOOLEAN : TSUpdateLead(p, ok)

NextTS == NewDay \/ \E p \in Procs : StepTS(p)

InitTS == Init /\ engine = "ts"

SpecTS == InitTS /\ [][NextTS]_vars

StepSQL(p) ==
  \/ \E l \in LeadIds, st \in StateInputs :
       ncalls < MaxCalls /\ BeginSQL(p, l, st) /\ UNCHANGED route
  \/ ResetStale(p)
  \/ Layer1(p)
  \/ Layer2(p)
  \/ Layer3(p)
  \/ LockRows(p)
  \/ UpdateCaller(p)
  \/ UpdateLead(p)
  \/ InsertLog(p)
  \/ Return(p)
  \/ Rollback(p)

NextSQL == NewDay \/ \E p \in Procs : StepSQL(p)

InitSQL == Init /\ engine = "sql"

SpecSQL == InitSQL /\ [][NextSQL]_vars

Next == NewDay \/ \E p \in Procs : StepSQL(p) \/ StepTS(p)

Spec == Init /\ [][Next]_vars

(***************************************************************************)
(* POST /api/ingest: the webhook handler. It checks the secret and the      *)
(* body, looks for a lead with the same phone in the last 24 hours, inserts *)
(* the lead, awaits smartAssignLead and answers.                            *)
(***************************************************************************)
MaxPosts == 2
MaxClock == 3

\* 24 hours, in ticks of the clock.
DupWindow == 2

\* What a request can carry: the X-Webhook-Secret header (or none) and the
\* phone of the body (or none).
HeaderInputs == {NULLTEXT, SharedSecret, <<"x">>}
PhoneInputs == {NULLTEXT, <<"9">>, <<" ", "9">>, <<"8">>}
RouteStateInputs == {<<"m", "h">>}

\* JavaScript truthiness of a string (undefined and "" are falsy).
Truthy(s) == s # NULLTEXT /\ s # <<>>

engineVars == <<engine, callers, leads, assignment_logs, clock, CURRENT_DATE, ncalls,
                pc, arg, loc, wCallers, wLeads, wLogs, lockC, lockL, result, events,
                assignedSince, increments, base, batch>>

Posts == Len(responses) + Cardinality({q \in Procs : requests[q].pos # "none"})

\* NextResponse.json(body, {status}), with the request it answers.
Response(status, success, duplicate, req, lead_id, warning) ==
  [status |-> status, success |-> success, duplicate |-> duplicate,
   header |-> req.header, phone |-> req.phone, lead_id |-> lead_id,
   warning |-> warning, assigned_caller_id |-> NULL]

\* The handler answers and ends.
Answer(p, r) ==
  /\ responses' = Append(responses, r)
  /\ requests' = [requests EXCEPT ![p] = NoRequest]

\* The leads with this phone created in the last 24 hours.
RecentLeads(phone) ==
  {l \in DOMAIN ingested :
     ingested[l].phone = phone /\ ingested[l].created_at > clock - DupWindow}

\* Sections 1-3: the secret, the body, the duplicate lookup.
Post(p, header, phone, st) ==
  /\ engine = "ts"
  /\ Posts < MaxPosts
  /\ requests[p].pos = "none" /\ pc[p] = "idle"
  /\ \A q \in Procs : q < p => requests[q].pos # "none"
  /\ LET req == [pos |-> "insert", phone |-> phone, state |-> st,
                 header |-> header, lead_id |-> NULL]
         cleanPhone == trim(phone)
     IN IF Truthy(WEBHOOK_SECRET) /\ header # WEBHOOK_SECRET
        THEN Answer(p, Response(401, FALSE, FALSE, req, NULL, "none"))
        ELSE IF phone = NULLTEXT \/ trim(phone) = <<>>
        THEN Answer(p, Response(400, FALSE, FALSE, req, NULL, "none"))
        ELSE IF RecentLeads(cleanPhone) # {}
        THEN \E l \in RecentLeads(cleanPhone) :
               Answer(p, Response(200, TRUE, TRUE, req, l, "none"))
        ELSE /\ requests' = [requests EXCEPT ![p] = [req EXCEPT !.phone = cleanPhone]]
             /\ UNCHANGED responses
  /\ UNCHANGED <<engineVars, WEBHOOK_SECRET, ingested>>

\* Section 4, then the start of smartAssignLead (section 5); or the insert
\* fails and the handler answers 500.
RouteInsert(p, ok, okFetch) ==
  /\ requests[p].pos = "insert"
  /\ IF ok
     THEN /\ BeginTS(p, NextLead, requests[p].state, okFetch)
          /\ ingested' = Put(ingested, NextLead,
                             [phone |-> requests[p].phone, created_at |-> clock])
          /\ requests' = [requests EXCEPT ![p].pos = "assign",
                                          ![p].lead_id = NextLead]
          /\ UNCHANGED <<WEBHOOK_SECRET, responses>>
     ELSE /\ Answer(p, Response(500, FALSE, FALSE, requests[p], NULL, "none"))
          /\ UNCHANGED <<engineVars, WEBHOOK_SECRET, ingested>>

\* An answer that reports the failure of the assignment as a failure.
AssignResponseStrict(req, res) ==
  IF res.error # "none"
  THEN Response(500, FALSE, FALSE, req, req.lead_id, res.error)
  ELSE Response(200, TRUE, FALSE, req, req.lead_id, res.error)

\* The object smartAssignLead resolves to: {caller, error}.
AssignmentResult(res) == [caller |-> res.caller_id, error |-> res.error]

\* obj.key in JavaScript: undefined when the object has no such property.
Property(obj, key) == IF key \in DOMAIN obj THEN obj[key] ELSE NULL

\* Section 6: the answer after smartAssignLead returned res (an error is only
\* logged); lead.assigned_caller_id is assignmentResult.caller_id.
AssignResponse(req, res) ==
  [Response(200, TRUE, FALSE, req, req.lead_id, Property(AssignmentResult(res), "error"))
     EXCEPT !.assigned_caller_id = Property(AssignmentResult(res), "caller_id")]

Respond(p) ==
  /\ requests[p].pos = "assign"
  /\ pc[p] = "idle"
  /\ Answer(p, AssignResponse(requests[p], result[p]))
  /\ UNCHANGED <<engineVars, WEBHOOK_SECRET, ingested>>

\* Time passes.
Tick ==
  /\ clock < MaxClock
  /\ clock' = clock + 1
  /\ UNCHANGED <<engine, callers, leads, assignment_logs, CURRENT_DATE, ncalls, pc, arg,
                 loc, wCallers, wLeads, wLogs, lockC, lockL, result, events,
                 assignedSince, increments, base, batch, route>>

StepRoute(p) ==
  \/ \E header \in HeaderInputs, phone \in PhoneInputs, st \in RouteStateInputs :
       Post(p, header, phone, st)
  \/ \E ok \in BOOLEAN, okFetch \in BOOLEAN : RouteInsert(p, ok, okFetch)
  \/ \E ok \in BOOLEAN : TSUpdateCaller(p, ok)
  \/ \E ok \in BOOLEAN : TSUpdateLead(p, ok)
  \/ Respond(p)

NextRoute == Tick \/ \E p \in Procs : StepRoute(p)

\* One deployment: smartAssignLead, at most one caller, the secret set or not.
InitRoute ==
  /\ InitEngine
  /\ engine = "ts"
  /\ Cardinality(DOMAIN callers) <= 1
  /\ \E s \in {NULLTEXT, SharedSecret} : InitIngest(s)

SpecRoute == InitRoute /\ [][NextRoute]_vars

(***************************************************************************)
(* CallerForm.handleSubmit: the administration form creates a caller or     *)
(* edits one. Each is a single autocommitted statement that carries only    *)
(* the form's columns.                                                      *)
(***************************************************************************)
MaxAdminCallers == 2
MaxAdminCalls == 2

\* The tag sets the form can submit for caller c.
FormStates(c) == {{}, TagsOf(c)}

\* A payload that also carries the counter columns of a new row.
FormPayloadWithCounters(row, limit, states) ==
  [row EXCEPT !.daily_lead_limit = limit, !.assigned_states = states,
              !.leads_assigned_today = 0, !.last_assigned_at = NULL]

\* update(payload): the row with the payload's columns replaced.
FormPayload(row, limit, states) ==
  [row EXCEPT !.daily_lead_limit = limit, !.assigned_states = states]

\* isEditing: update(payload).eq('id', existing.id). The statement waits while
\* a transaction holds the row's lock.
EditCaller(c, limit, states) ==
  /\ c \in DOMAIN callers
  /\ lockC[c] = NULL
  /\ callers' = [callers EXCEPT ![c] = FormPayload(@, limit, states)]
  /\ callers' # callers
  /\ callers[c].assigned_states = TagsOf(c)
  /\ UNCHANGED <<engine, leads, assignment_logs, clock, CURRENT_DATE, ncalls, pc, arg,
                 loc, wCallers, wLeads, wLogs, lockC, lockL, result, events,
                 assignedSince, increments, base, batch, route>>

\* insert(payload): the other columns take the table's defaults.
CreateCaller(limit, states) ==
  LET c == Cardinality(DOMAIN callers) + 1
  IN /\ c <= MaxAdminCallers
     /\ states \in FormStates(c)
     /\ callers' = Put(callers, c, FormPayload(NewCaller(limit, states, CURRENT_DATE),
                                               limit, states))
     /\ UNCHANGED <<engine, leads, assignment_logs, clock, CURRENT_DATE, ncalls, pc,
                    arg, loc, wCallers, wLeads, wLogs, lockC, lockL, result, events,
                    assignedSince, increments, base, batch, route>>

handleSubmit ==
  \/ \E c \in CallerIds, limit \in 1..MaxLimit :
       \E states \in FormStates(c) : EditCaller(c, limit, states)
  \/ \E limit \in 1..MaxLimit, states \in SUBSET {MH, KA} : CreateCaller(limit, states)

StepAdmin(p) ==
  \/ \E l \in LeadIds, st \in RouteStateInputs :
       /\ ncalls < MaxAdminCalls
       /\ (BeginSQL(p, l, st) \/ BeginTS(p, l, st, TRUE))
       /\ UNCHANGED route
  \/ ResetStale(p)
  \/ Layer1(p)
  \/ Layer2(p)
  \/ Layer3(p)
  \/ LockRows(p)
  \/ UpdateCaller(p)
  \/ UpdateLead(p)
  \/ InsertLog(p)
  \/ Return(p)
  \/ TSReset(p, TRUE)
  \/ TSUpdateCaller(p, TRUE)
  \/ TSUpdateLead(p, TRUE)

\* Midnight passes once.
NewDayAdmin == CURRENT_DATE = 1 /\ NewDay

NextAdmin == handleSubmit \/ NewDayAdmin \/ \E p \in Procs : StepAdmin(p)

InitAdmin == Init /\ Cardinality(DOMAIN callers) <= 1

SpecAdmin == InitAdmin /\ [][NextAdmin]_vars

(***************************************************************************)
(* Sequential use: a call starts only when no other call is in flight, and *)
(* every call is for a lead the ingest route has just inserted.            *)
(***************************************************************************)
BeginSeq(p) ==
  /\ AllIdle
  /\ ncalls < MaxSeqCalls
  /\ NextLead \in LeadIds
  /\ \E st \in WideStateInputs :
       \/ BeginSQL(p, NextLead, st)
       \/ BeginTS(p, NextLead, st, TRUE)
  /\ UNCHANGED route

\* Midnight passes between two calls.
NewDaySeq == AllIdle /\ NewDay

\* No statement fails.
StepSeq(p) ==
  \/ BeginSeq(p)
  \/ ResetStale(p)
  \/ Layer1(p)
  \/ Layer2(p)
  \/ Layer3(p)
  \/ LockRows(p)
  \/ UpdateCaller(p)
  \/ UpdateLead(p)
  \/ InsertLog(p)
  \/ Return(p)
  \/ TSReset(p, TRUE)
  \/ TSUpdateCaller(p, TRUE)
  \/ TSUpdateLead(p, TRUE)

NextSeq == NewDaySeq \/ \E p \in Procs : StepSeq(p)

SpecSeq == Init /\ [][NextSeq]_vars

(***************************************************************************)
(* assign_lead_atomic run alone (no other transaction): what one call does *)
(* to the callers table, as a function.                                    *)
(***************************************************************************)
\* Statement A on the whole table.
ResetAll(t, today) ==
  [c \in DOMAIN t |->
     IF t[c].last_reset_date < today
     THEN [t[c] EXCEPT !.leads_assigned_today = 0, !.last_reset_date = today]
     ELSE t[c]]

\* The first layer whose SELECT returns a row.
FirstLayer(t, p_state) ==
  IF LayerRows(1, t, p_state) # {} THEN 1
  ELSE IF LayerRows(2, t, p_state) # {} THEN 2
  ELSE 3

\* The callers the call may choose (several when rows tie in the sort).
Choices(t, p_state) ==
  FirstRows(FirstLayer(t, p_state), t, LayerRows(FirstLayer(t, p_state), t, p_state))

\* Statement C on the chosen caller.
Assigned(t, r, now) ==
  [t EXCEPT ![r] = [@ EXCEPT !.leads_assigned_today = @ + 1, !.last_assigned_at = now]]

\* Every result of running the calls ks of b one at a time, in any order, from
\* table t, the first at time now: the table reached and what each call got.
RECURSIVE SerialOutcomes(_, _, _, _)
SerialOutcomes(t, b, ks, now) ==
  IF ks = {} THEN {[callers |-> t, got |-> EmptyFn]}
  ELSE UNION {
         LET t1 == ResetAll(t, b[k].today)
             n == FirstLayer(t1, b[k].state)
         IN IF DOMAIN t1 = {}
            THEN {[callers |-> o.callers, got |-> Put(o.got, k, <<NULL, "">>)] :
                    o \in SerialOutcomes(t1, b, ks \ {k}, now + 1)}
            ELSE UNION {
                   {[callers |-> o.callers,
                     got |-> Put(o.got, k, <<r, LayerReason(n)>>)] :
                      o \in SerialOutcomes(Assigned(t1, r, now), b, ks \ {k}, now + 1)} :
                   r \in Choices(t1, b[k].state)}
         : k \in ks}

(***************************************************************************)
(* The claims.                                                             *)
(***************************************************************************)
Committed(k) == batch[k].done = "ok"
Counters(t) == [c \in DOMAIN t |-> t[c].leads_assigned_today]
LogsOf(l, c) ==
  {i \in DOMAIN assignment_logs :
     assignment_logs[i].lead_id = l /\ assignment_logs[i].caller_id = c}

\* C1: a counter goes above the daily limit only through the overflow tier:
\* every assignment to a caller that was at or above its limit when chosen is
\* recorded in assignment_logs with the overflow reason, and no assignment of
\* the state-match or global round-robin tier leaves a counter above the limit.
C1_OverLimitOnlyByOverflow ==
  \A i \in DOMAIN events :
    /\ events[i].before >= events[i].limit =>
         \E j \in LogsOf(events[i].lead_id, events[i].caller_id) :
           assignment_logs[j].assignment_reason = "cap_overflow_fallback"
    /\ events[i].reason # "cap_overflow_fallback" => events[i].after <= events[i].limit

\* C2: when no call is running and every increment belongs to a completed
\* assignment, every caller's leads_assigned_today equals the number of leads
\* assigned to it since its last daily reset (no lost update).
C2_CounterCountsAssignments ==
  (AllIdle /\ increments = Len(events)) =>
    \A c \in DOMAIN callers : callers[c].leads_assigned_today = assignedSince[c]

\* C3: when a batch of concurrent calls has ended, the counters and what each
\* committed call got (caller and reason) are those of running the committed
\* calls one at a time in some order.
C3_Serializable ==
  (engine = "sql" /\ AllIdle) =>
    LET ks == {k \in DOMAIN batch : Committed(k)}
        start == IF ks = {} THEN clock
                 ELSE CHOOSE n \in {batch[k].now : k \in ks} :
                        \A k \in ks : n <= batch[k].now
    IN \E o \in SerialOutcomes(base.callers, batch, ks, start) :
         /\ Counters(o.callers) = Counters(callers)
         /\ \A k \in ks : o.got[k] = <<batch[k].got, batch[k].reason>>

\* The pool the two calls select from, on the table at the start of the batch.
UnderLimit(t) == {c \in DOMAIN t : t[c].leads_assigned_today < t[c].daily_lead_limit}
EligiblePool(t, st) ==
  IF LayerRows(1, t, st) # {} THEN LayerRows(1, t, st) ELSE UnderLimit(t)

\* C4: two concurrent calls for two unassigned leads over a pool of at least two
\* callers under their limit, exactly one of them never assigned, get two
\* different callers.
C4_NeverAssignedSlotOnce ==
  AllIdle =>
    \A j, k \in DOMAIN batch :
      LET pool == EligiblePool(base.callers, batch[j].state)
      IN (/\ j < k
          /\ DOMAIN batch = {j, k}
          /\ Committed(j) /\ Committed(k)
          /\ base.leads[batch[j].lead_id].assigned_caller_id = NULL
          /\ base.leads[batch[k].lead_id].assigned_caller_id = NULL
          /\ batch[j].state = batch[k].state
          /\ \A c \in DOMAIN base.callers :
               base.callers[c].last_reset_date = batch[j].today
                 /\ base.callers[c].last_reset_date = batch[k].today
          /\ Cardinality(pool) >= 2
          /\ Cardinality({c \in pool : base.callers[c].last_assigned_at = NULL}) = 1)
         => batch[j].got # batch[k].got

\* C5: an assign call for a lead that is already assigned is a no-op: no lead
\* is assigned a second time (no second increment, no second log row).
C5_SingleShot ==
  \A i, j \in DOMAIN events : i # j => events[i].lead_id # events[j].lead_id

\* C6: once a lead's assigned_caller_id is not null it never changes.
C6_AssignedCallerFrozen ==
  [][\A l \in DOMAIN leads :
       leads[l].assigned_caller_id # NULL =>
         leads'[l].assigned_caller_id = leads[l].assigned_caller_id]_vars

\* C7: a call that fails leaves the callers, the leads' assignment and the
\* audit log exactly as they were before the call (a call that ran alone).
C7_FailureLeavesNoTrace ==
  (AllIdle /\ \E k \in DOMAIN batch : DOMAIN batch = {k} /\ batch[k].done = "fail") =>
    /\ callers = base.callers
    /\ leads = base.leads
    /\ assignment_logs = base.assignment_logs

\* C8: no partial assignment is visible: in every state a lead is assigned to
\* caller c exactly when one assignment_logs row (lead, c) exists, and every
\* committed increment of a counter has its lead assignment committed.
C8_NoPartialAssignment ==
  /\ increments = Len(events)
  /\ \A l \in DOMAIN leads, c \in DOMAIN callers :
       leads[l].assigned_caller_id = c <=> Cardinality(LogsOf(l, c)) = 1

(***************************************************************************)
(* The moment a call has chosen its caller and has not yet written: the    *)
(* rows it chose on, the caller it chose and the branch it took.           *)
(***************************************************************************)
HasChosen(p) == pc[p] \in {"updateCaller", "tsUpdateLead"}
ChosenOn(p) == IF pc[p] = "updateCaller" THEN Visible(p) ELSE loc[p].rawCallers
ChosenId(p) ==
  IF pc[p] = "updateCaller" THEN loc[p].v_chosen_caller_id ELSE loc[p].chosenCaller

\* r is, among pool, a caller with the oldest last_assigned_at of table t, a
\* caller never assigned being older than every caller that was.
IsOldest(t, pool, r) ==
  /\ r \in pool
  /\ \A c \in pool :
       \/ t[r].last_assigned_at = NULL
       \/ t[c].last_assigned_at # NULL /\ t[r].last_assigned_at <= t[c].last_assigned_at

\* A lead without an affinity key.
NoAffinity(st) == st = NULLTEXT \/ st = <<>>

\* Every assignment so far was of a lead without affinity key to a caller under
\* its limit.
OnlyPlainSoFar ==
  \A i \in DOMAIN events :
    /\ NoAffinity(leads[events[i].lead_id].state)
    /\ events[i].before < events[i].limit

\* C9: under sequential calls for leads without affinity key, callers staying under
\* their limit and starting never assigned: the first M assignments go to M
\* distinct callers, a caller is chosen again only after every other caller was
\* chosen in between, and the caller chosen among those under their limit has
\* the oldest last_assigned_at (null first).
C9_RoundRobinFair ==
  /\ OnlyPlainSoFar =>
       /\ \A i, j \in DOMAIN events :
            (i < j /\ j <= Cardinality(DOMAIN callers)) =>
              events[i].caller_id # events[j].caller_id
       /\ \A i, j \in DOMAIN events :
            (i < j /\ events[i].caller_id = events[j].caller_id) =>
              \A c \in DOMAIN callers \ {events[i].caller_id} :
                \E k \in (i + 1)..(j - 1) : events[k].caller_id = c
  /\ \A p \in Procs :
       (HasChosen(p) /\ NoAffinity(arg[p].state) /\ UnderLimit(ChosenOn(p)) # {}) =>
         IsOldest(ChosenOn(p), UnderLimit(ChosenOn(p)), ChosenId(p))

\* C9 case: three callers, four plain assignments, the fourth back to the caller
\* of the first.
C9_Witness ==
  /\ Cardinality(DOMAIN callers) = 3
  /\ Len(events) = 4
  /\ OnlyPlainSoFar
  /\ events[4].caller_id = events[1].caller_id

\* Two texts equal up to letter case.
SameLetter(x, y) ==
  \/ x = y
  \/ \E pr \in {<<"M", "m">>, <<"H", "h">>, <<"K", "k">>, <<"A", "a">>} :
       {x, y} = {pr[1], pr[2]}
SameIgnoringCase(a, b) ==
  /\ Len(a) = Len(b)
  /\ \A i \in 1..Len(a) : SameLetter(a[i], b[i])

\* The callers under their limit that carry a tag equal to st up to case.
TaggedUnderLimit(t, st) ==
  {c \in UnderLimit(t) : \E s \in t[c].assigned_states : SameIgnoringCase(s, st)}

\* C10: with calls run one at a time, a lead whose state is not empty and
\* equals, up to letter case, a tag of a caller under its limit goes to such a
\* caller, the one with the oldest last_assigned_at (null first), with the
\* state-match reason, whatever the last_assigned_at of the callers without
\* the tag.
C10_AffinityFirst ==
  \A p \in Procs :
    (/\ HasChosen(p)
     /\ ~NoAffinity(arg[p].state)
     /\ TaggedUnderLimit(ChosenOn(p), arg[p].state) # {}) =>
      /\ IsOldest(ChosenOn(p), TaggedUnderLimit(ChosenOn(p), arg[p].state), ChosenId(p))
      /\ loc[p].v_reason = "state_match_round_robin"

\* C10 case: the lead's state is "mh", the caller chosen carries "MH" and was
\* assigned before, while a caller without the tag was never assigned.
C10_Witness ==
  \E p \in Procs :
    /\ HasChosen(p)
    /\ arg[p].state = <<"m", "h">>
    /\ ChosenId(p) \in TaggedUnderLimit(ChosenOn(p), arg[p].state)
    /\ ChosenOn(p)[ChosenId(p)].last_assigned_at # NULL
    /\ \E c \in UnderLimit(ChosenOn(p)) \ TaggedUnderLimit(ChosenOn(p), arg[p].state) :
         ChosenOn(p)[c].last_assigned_at = NULL

(***************************************************************************)
(* The tiers, stated on the rows a call chose on.                          *)
(***************************************************************************)
\* The callers that carry a tag equal to st up to case, whatever their count.
Tagged(t, st) ==
  {c \in DOMAIN t : \E s \in t[c].assigned_states : SameIgnoringCase(s, st)}

\* A lead state written without surrounding blanks (or no state at all).
PlainKey(st) == NoAffinity(st) \/ trim(st) = st

\* r has, among pool, the fewest leads today in table t.
IsLeastLoaded(t, pool, r) ==
  /\ r \in pool
  /\ \A c \in pool : t[r].leads_assigned_today <= t[c].leads_assigned_today

\* C11: a lead with no state, or with a state no caller under its limit is
\* tagged with, goes to the caller of the whole registry that is under its limit
\* and has the oldest last_assigned_at (null first), with reason
\* global_round_robin, whenever some caller of the registry is under its limit.
C11_GlobalFallback ==
  \A p \in Procs :
    (/\ HasChosen(p)
     /\ PlainKey(arg[p].state)
     /\ NoAffinity(arg[p].state) \/ TaggedUnderLimit(ChosenOn(p), arg[p].state) = {}
     /\ UnderLimit(ChosenOn(p)) # {}) =>
      /\ IsOldest(ChosenOn(p), UnderLimit(ChosenOn(p)), ChosenId(p))
      /\ loc[p].v_reason = "global_round_robin"

\* C12: a lead whose state is a tag of some caller while every caller with that
\* tag is at or above its limit goes to the least loaded caller with the tag,
\* with the overflow reason, even when callers without the tag are under their
\* limit.
C12_OverflowInAffinityPool ==
  \A p \in Procs :
    (/\ HasChosen(p)
     /\ PlainKey(arg[p].state) /\ ~NoAffinity(arg[p].state)
     /\ Tagged(ChosenOn(p), arg[p].state) # {}
     /\ TaggedUnderLimit(ChosenOn(p), arg[p].state) = {}) =>
      /\ IsLeastLoaded(ChosenOn(p), Tagged(ChosenOn(p), arg[p].state), ChosenId(p))
      /\ ChosenOn(p)[ChosenId(p)].leads_assigned_today
           >= ChosenOn(p)[ChosenId(p)].daily_lead_limit
      /\ loc[p].v_reason = "cap_overflow_fallback"

\* The pool the overflow tier is to choose from.
OverflowPool(t, st) ==
  IF ~NoAffinity(st) /\ Tagged(t, st) # {} THEN Tagged(t, st) ELSE DOMAIN t

\* C13: when the overflow tier is used the caller chosen is one of the callers
\* tagged with the lead's state if there is one, else of the whole registry; it
\* has the fewest leads today of that pool and, among those that tie, the oldest
\* last_assigned_at (null first).
C13_OverflowRule ==
  \A p \in Procs :
    (/\ HasChosen(p)
     /\ PlainKey(arg[p].state)
     /\ loc[p].v_reason = "cap_overflow_fallback") =>
      LET t == ChosenOn(p)
          pool == OverflowPool(t, arg[p].state)
          least == {c \in pool : IsLeastLoaded(t, pool, c)}
      IN IsOldest(t, least, ChosenId(p))

(***************************************************************************)
(* What a call that ran alone and met no failure ends with.                *)
(***************************************************************************)
\* C14: with a registry that is not empty and no failing statement, a call
\* always has a next step and, once it has returned, has reported success and
\* left the lead assigned to the caller it returned, also when every caller was
\* at or above its limit.
C14_NoLeadLost ==
  DOMAIN callers # {} =>
    /\ \A p \in Procs : InFlight(p) => ENABLED StepSeq(p)
    /\ AllIdle =>
         \A k \in DOMAIN batch :
           /\ batch[k].done = "ok"
           /\ batch[k].got \in DOMAIN callers
           /\ leads[batch[k].lead_id].assigned_caller_id = batch[k].got
           /\ \E p \in Procs : result[p].success /\ result[p].caller_id = batch[k].got

\* C14 case: a call has returned that found every caller at or above its limit.
C14_Witness ==
  /\ AllIdle
  /\ \E k \in DOMAIN batch :
       /\ batch[k].reason = "cap_overflow_fallback"
       /\ leads[batch[k].lead_id].assigned_caller_id = batch[k].got
       /\ Cardinality(DOMAIN base.callers) >= 2
       /\ UnderLimit(ResetAll(base.callers, batch[k].today)) = {}

\* C15: with an empty registry every call returns a failure saying that there is
\* no caller, every lead keeps assigned_caller_id and assigned_at null, and no
\* caller row or assignment_logs row is written.
C15_EmptyRegistry ==
  DOMAIN callers = {} =>
    /\ \A l \in DOMAIN leads :
         leads[l].assigned_caller_id = NULL /\ leads[l].assigned_at = NULL
    /\ assignment_logs = <<>>
    /\ \A p \in Procs : wCallers[p] = EmptyFn /\ wLogs[p] = <<>> /\ ~result[p].success
    /\ (AllIdle /\ ncalls > 0) =>
         \E p \in Procs :
           result[p].error \in {"No callers available for assignment",
                                "No callers found in the system."}

\* C15 case: two calls have returned on an empty registry.
C15_Witness ==
  /\ DOMAIN callers = {}
  /\ AllIdle
  /\ ncalls = 2
  /\ Cardinality(DOMAIN leads) = 2
  /\ \E p \in Procs : result[p].error = "No callers available for assignment"

\* The answers given so far.
Answers == {responses[i] : i \in DOMAIN responses}

\* The handler that inserted lead l has answered.
Answered(l) == \A p \in Procs : requests[p].lead_id # l

C17_NoDuplicateWithin24h ==
  \A l1 \in DOMAIN ingested, l2 \in DOMAIN ingested :
    (l1 < l2 /\ ingested[l1].phone = ingested[l2].phone) =>
      ingested[l2].created_at - ingested[l1].created_at >= DupWindow

\* C18: a request whose X-Webhook-Secret header is missing or wrong is
\* answered 401 and inserts no lead.
C18_SecretRequired ==
  /\ \A r \in Answers :
       r.header # SharedSecret => (r.status = 401 /\ r.lead_id = NULL)
  /\ \A p \in Procs :
       requests[p].pos # "none" => requests[p].header = SharedSecret

\* The call's single value of today, and the rows its selection reads.
TodayOf(p) == IF engine = "sql" THEN loc[p].v_today ELSE loc[p].today
Selecting(p) ==
  pc[p] \in {"layer1", "layer2", "layer3", "lock", "updateCaller", "tsUpdateCaller"}
Commits(p) == InFlight(p) /\ pc'[p] = "idle" /\ result'[p].success

\* Every row the selection reads has been reset for the call's today, and a
\* row the store still holds as stale is read with a counter of 0.
ResetBeforeSelection(p) ==
  Selecting(p) =>
    \A c \in DOMAIN ChosenOn(p) :
      /\ ChosenOn(p)[c].last_reset_date >= TodayOf(p)
      /\ callers[c].last_reset_date < TodayOf(p) =>
           ChosenOn(p)[c].leads_assigned_today = 0

\* C19: the quota reset precedes every capacity decision of a call (in all
\* three tiers), and when the call commits the store holds no worker with
\* last_reset_date earlier than the call's today and a non-zero counter.
C19_ResetPrecedesSelection ==
  [][\A p \in Procs :
       /\ ResetBeforeSelection(p)'
       /\ Commits(p) =>
            \A c \in DOMAIN callers' :
              ~(/\ callers'[c].last_reset_date < TodayOf(p)
                /\ callers'[c].leads_assigned_today # 0)]_vars

\* The call p performs a step of its reset statement; the table as its
\* statement sees it.
ResetStepOf(p) ==
  /\ pc[p] \in {"reset", "tsReset"}
  /\ <<pc[p], loc[p]>>' # <<pc[p], loc[p]>>
  /\ pc'[p] # "idle"
SeenBy(p) == IF engine = "sql" THEN Visible(p) ELSE callers

\* C20: the daily reset is idempotent and selective: a second application
\* with the same today changes nothing; a worker whose last_reset_date is not
\* earlier than today keeps its counter; last_assigned_at, the limit and the
\* tags are never changed by the reset.
C20_ResetIdempotentSelective ==
  [][\A p \in Procs :
       ResetStepOf(p) =>
         /\ ResetAll(ResetAll(callers, TodayOf(p)), TodayOf(p))
              = ResetAll(callers, TodayOf(p))
         /\ ReflectReset(ReflectReset(callers, TodayOf(p)), TodayOf(p))
              = ReflectReset(callers, TodayOf(p))
         /\ \A c \in DOMAIN callers :
              /\ SeenBy(p)[c].last_reset_date >= TodayOf(p) =>
                   SeenBy(p)'[c] = SeenBy(p)[c]
              /\ SeenBy(p)'[c].last_assigned_at = SeenBy(p)[c].last_assigned_at
              /\ SeenBy(p)'[c].daily_lead_limit = SeenBy(p)[c].daily_lead_limit
              /\ SeenBy(p)'[c].assigned_states = SeenBy(p)[c].assigned_states]_vars

\* The step resets the stored row of caller c: a reset statement of some call
\* covers it, or its last_reset_date advances.
ResetsRow(c) ==
  \/ callers'[c].last_reset_date > callers[c].last_reset_date
  \/ \E p \in Procs :
       \/ /\ pc[p] = "tsReset" /\ pc'[p] # "tsReset"
          /\ c \in StaleCallerIds(loc[p].rawCallers, loc[p].today)
          /\ callers'[c].leads_assigned_today = 0
       \/ /\ pc[p] = "return" /\ pc'[p] = "idle"
          /\ c \in loc[p].didReset

\* C21: a worker's counter is never negative and never decreases except by a
\* daily reset; its last_assigned_at never moves to an earlier time or back to
\* null.
C21_CountersMonotone ==
  [][\A c \in DOMAIN callers :
       /\ callers'[c].leads_assigned_today >= 0
       /\ callers'[c].leads_assigned_today < callers[c].leads_assigned_today
            => ResetsRow(c)
       /\ callers'[c].last_assigned_at >= callers[c].last_assigned_at
       /\ callers[c].last_assigned_at # NULL => callers'[c].last_assigned_at # NULL]_vars

ReasonCodes == {"state_match_round_robin", "global_round_robin", "cap_overflow_fallback"}

\* C22: the audit log is append-only and complete: every successful assignment
\* appends exactly one record naming the lead, the chosen worker and one of
\* the three reason codes, a failed call appends none, and no step changes or
\* removes a record, so there are as many records as successful assignments.
C22_AuditLogComplete ==
  [][/\ Len(assignment_logs') >= Len(assignment_logs)
     /\ SubSeq(assignment_logs', 1, Len(assignment_logs)) = assignment_logs
     /\ Len(assignment_logs') = Len(events')
     /\ \A i \in DOMAIN assignment_logs' :
          /\ assignment_logs'[i].lead_id = events'[i].lead_id
          /\ assignment_logs'[i].caller_id = events'[i].caller_id
          /\ assignment_logs'[i].assignment_reason = events'[i].reason
          /\ assignment_logs'[i].assignment_reason \in ReasonCodes]_vars

\* The counters a capacity or fairness decision reads.
DecisionKey(row) == <<row.leads_assigned_today, row.last_assigned_at>>

\* C23: a call that needs a locked worker row waits for it: it passes over a
\* row of its order only when the row no longer qualifies (never because it is
\* locked), and the row it decides on has, at the decision, the counters of
\* its latest committed version (not those from before another call's update).
C23_BlockNotSkip ==
  [][\A p \in Procs :
       /\ (pc[p] = "lock" /\ pc'[p] = "updateCaller") =>
            LET r == loc'[p].v_chosen_caller_id
                n == loc[p].layer
            IN /\ lockC[r] \in {NULL, p}
               /\ \A o \in LayerRows(n, loc[p].snap, arg[p].state) :
                    LayerBefore(n, loc[p].snap[o], loc[p].snap[r]) =>
                      ~LayerWhere(n, Visible(p)[o], arg[p].state)
               /\ DecisionKey(loc[p].snap[r]) = DecisionKey(Visible(p)[r])
       /\ (pc[p] = "tsUpdateCaller" /\ pc'[p] = "tsUpdateLead") =>
            LET r == loc'[p].chosenCaller
            IN callers[r].last_reset_date >= loc[p].today =>
                 DecisionKey(loc[p].rawCallers[r]) = DecisionKey(callers[r])]_vars

\* The step is one of the administration form: a caller appears, or a limit
\* or a tag set changes.
AdminStep ==
  \/ DOMAIN callers' # DOMAIN callers
  \/ \E c \in DOMAIN callers :
       \/ callers'[c].daily_lead_limit # callers[c].daily_lead_limit
       \/ callers'[c].assigned_states # callers[c].assigned_states

\* C24: creating or editing a worker through the administration form leaves
\* assigned_count_today, last_reset_date and last_assigned_at of every
\* existing worker unchanged, also between or during assign calls.
C24_FormKeepsCounters ==
  [][AdminStep =>
       \A c \in DOMAIN callers :
         /\ c \in DOMAIN callers'
         /\ callers'[c].leads_assigned_today = callers[c].leads_assigned_today
         /\ callers'[c].last_reset_date = callers[c].last_reset_date
         /\ callers'[c].last_assigned_at = callers[c].last_assigned_at]_vars

\* A caller with a counter was edited while a call is in flight.
C24_Witness ==
  /\ \E p \in Procs : InFlight(p)
  /\ \E c \in DOMAIN callers :
       /\ callers[c].leads_assigned_today > 0
       /\ callers[c].assigned_states # TagsOf(c)
       /\ \E o \in DOMAIN callers :
            callers[o].daily_lead_limit # callers[c].daily_lead_limit

\* The workers the selector of the engine can yield for the call of p on the
\* snapshot it chose from.
Yields(p) ==
  IF engine = "sql" THEN Choices(ChosenOn(p), arg[p].state)
  ELSE {chosenCaller(ChosenOn(p), arg[p].state)}

\* C25: selection is deterministic: the work item and the worker snapshot
\* determine the worker chosen (and with it the reason code), also when
\* several candidates tie on the sort key.
C25_Deterministic ==
  \A p \in Procs : HasChosen(p) => Yields(p) = {ChosenId(p)}

\* The reason of the choice the call of p has made.
ChosenReason(p) == loc[p].v_reason

\* C26: when the overflow tier is used, the lead goes to a caller with the
\* fewest leads assigned today among all the callers of the system, not only
\* among those tagged with the lead's state.
C26_OverflowOverAllCallers ==
  \A p \in Procs :
    (HasChosen(p) /\ ChosenReason(p) = "cap_overflow_fallback") =>
      \A o \in DOMAIN ChosenOn(p) :
        ChosenOn(p)[ChosenId(p)].leads_assigned_today
          <= ChosenOn(p)[o].leads_assigned_today

\* C27: what is reported for an assignment agrees with what is stored: the
\* worker assign returns is the one stored on the lead, and the
\* assigned_caller_id in the answer of POST /api/ingest is the lead's stored
\* assigned_caller_id (null or absent only when the stored lead is unassigned).
C27_ResponseMatchesStore ==
  /\ \A k \in DOMAIN batch :
       batch[k].done = "ok" => leads[batch[k].lead_id].assigned_caller_id = batch[k].got
  /\ \A r \in Answers :
       (r.status = 200 /\ ~r.duplicate /\ Answered(r.lead_id)) =>
         r.assigned_caller_id = leads[r.lead_id].assigned_caller_id

\* The one call of the batch, when the calls run one at a time.
TheCall == batch[CHOOSE k \in DOMAIN batch : TRUE]
OneCallDone ==
  /\ AllIdle /\ Cardinality(DOMAIN batch) = 1
  /\ TheCall.done = "ok" /\ TheCall.got # NULL

\* C28: the frame of a successful assign: besides the workers the daily reset
\* resets, exactly one worker changes: its counter grows by exactly 1 and its
\* last_assigned_at becomes the call's time; every other worker's counter and
\* last_assigned_at, every worker's limit and tags and every other lead's
\* assignment fields are unchanged.
C28_SuccessFrame ==
  OneCallDone =>
    LET t0 == ResetAll(base.callers, TheCall.today)
        r == TheCall.got
        l == TheCall.lead_id
    IN /\ r \in DOMAIN callers
       /\ DOMAIN callers = DOMAIN base.callers
       /\ callers[r].leads_assigned_today = t0[r].leads_assigned_today + 1
       /\ callers[r].last_assigned_at = leads[l].assigned_at
       /\ callers[r].last_assigned_at # NULL
       /\ \A c \in DOMAIN callers :
            callers[r].last_assigned_at >= base.callers[c].last_assigned_at
       /\ \A c \in DOMAIN callers :
            /\ c # r => /\ callers[c].leads_assigned_today = t0[c].leads_assigned_today
                        /\ callers[c].last_assigned_at = base.callers[c].last_assigned_at
                        /\ callers[c].last_reset_date = t0[c].last_reset_date
            /\ callers[c].daily_lead_limit = base.callers[c].daily_lead_limit
            /\ callers[c].assigned_states = base.callers[c].assigned_states
       /\ \A o \in DOMAIN leads : o # l => (o \in DOMAIN base.leads /\ leads[o] = base.leads[o])

\* A call succeeded on a day after another caller's counter went stale.
C28_Witness ==
  /\ OneCallDone
  /\ \E c \in DOMAIN callers :
       /\ c # TheCall.got
       /\ base.callers[c].last_reset_date < TheCall.today
       /\ base.callers[c].leads_assigned_today > 0
       /\ callers[c].leads_assigned_today = 0
  /\ base.callers[TheCall.got].leads_assigned_today > 0
  /\ callers[TheCall.got].leads_assigned_today = 1

\* C29: a worker's last_reset_date never moves to an earlier date, and within
\* one calendar day its counter is reset at most once: a counter goes back to
\* 0 only in a step that moves last_reset_date forward, also when two calls
\* overlap across a day change.
C29_ResetDateMonotone ==
  [][\A c \in DOMAIN callers :
       /\ callers'[c].last_reset_date >= callers[c].last_reset_date
       /\ (callers[c].leads_assigned_today > 0 /\ callers'[c].leads_assigned_today = 0)
            => callers'[c].last_reset_date > callers[c].last_reset_date]_vars

\* C30: under sequential use assign_lead_atomic and smartAssignLead agree: on
\* the snapshot a call chose from, the caller smartAssignLead yields is one
\* assign_lead_atomic can yield, and it is the caller the call took.
C30_EnginesAgree ==
  \A p \in Procs :
    HasChosen(p) =>
      /\ chosenCaller(ChosenOn(p), arg[p].state) \in Choices(ChosenOn(p), arg[p].state)
      /\ ChosenId(p) \in Choices(ChosenOn(p), arg[p].state)

\* A step of the transaction of p before its end (no exception raised).
Proceeds(p) ==
  \/ ResetStale(p)
  \/ Layer1(p)
  \/ Layer2(p)
  \/ Layer3(p)
  \/ LockRows(p)
  \/ UpdateCaller(p)
  \/ UpdateLead(p)
  \/ InsertLog(p)
  \/ Return(p)

\* C31: no deadlock among concurrent assign calls, also at a day boundary
\* where the calls run the daily reset: while calls are in flight, one of them
\* is not waiting for a row lock and can take its next step, so each call
\* goes on to commit.
C31_NoDeadlock ==
  (\E p \in Procs : InFlight(p)) => \E p \in Procs : InFlight(p) /\ ENABLED Proceeds(p)

====
